---- MODULE Spec2Model ----
(***************************************************************************)
(* Model of src/app.js: an Express application that serves an in-memory    *)
(* list of users (usuarios) through GET, POST, PUT and DELETE handlers.    *)
(* Strings are modelled as sequences of one-character strings so that      *)
(* parseInt and the Joi length rule are computed character by character.   *)
(***************************************************************************)
EXTENDS Integers, Sequences, FiniteSets, TLC

\* ----- bounds of the model ------------------------------------------------
\* number of requests the server handles in a run
MaxPeticiones == 4
\* longest generated body name ("a", "aa", ...)
MaxNombre == 3
\* largest single-digit id used as a route parameter
MaxIdParam == 4

\* ----- state --------------------------------------------------------------
VARIABLES usuarios, req, res, validacion, eliminados, atendidas

vars == <<usuarios, req, res, validacion, eliminados, atendidas>>

\* ----- strings ------------------------------------------------------------
Digitos == <<"0", "1", "2", "3", "4", "5", "6", "7", "8", "9">>

Blancos == {" "}

\* value of a character as a digit in base 16, or -1
ValorDigito(c) ==
    CASE c = "0" -> 0 [] c = "1" -> 1 [] c = "2" -> 2 [] c = "3" -> 3
      [] c = "4" -> 4 [] c = "5" -> 5 [] c = "6" -> 6 [] c = "7" -> 7
      [] c = "8" -> 8 [] c = "9" -> 9
      [] c \in {"a", "A"} -> 10 [] c \in {"b", "B"} -> 11
      [] c \in {"c", "C"} -> 12 [] c \in {"d", "D"} -> 13
      [] c \in {"e", "E"} -> 14 [] c \in {"f", "F"} -> 15
      [] OTHER -> -1

RECURSIVE QuitarBlancos(_)
QuitarBlancos(s) ==
    IF s # <<>> /\ s[1] \in Blancos THEN QuitarBlancos(Tail(s)) ELSE s

\* longest prefix of s made of digits of the given radix
RECURSIVE PrefijoDigitos(_, _)
PrefijoDigitos(s, base) ==
    IF s # <<>> /\ ValorDigito(s[1]) >= 0 /\ ValorDigito(s[1]) < base
    THEN <<s[1]>> \o PrefijoDigitos(Tail(s), base)
    ELSE <<>>

RECURSIVE ValorNumerico(_, _, _)
ValorNumerico(s, base, acc) ==
    IF s = <<>> THEN acc
    ELSE ValorNumerico(Tail(s), base, acc * base + ValorDigito(s[1]))

NaN == [nan |-> TRUE, val |-> 0]

\* parseInt(string) with no radix argument
ParseInt(s) ==
    LET t == QuitarBlancos(s)
        signo == IF t # <<>> /\ t[1] = "-" THEN -1 ELSE 1
        u == IF t # <<>> /\ t[1] \in {"-", "+"} THEN Tail(t) ELSE t
        hex == Len(u) >= 2 /\ u[1] = "0" /\ u[2] \in {"x", "X"}
        base == IF hex THEN 16 ELSE 10
        w == IF hex THEN SubSeq(u, 3, Len(u)) ELSE u
        d == PrefijoDigitos(w, base)
    IN  IF d = <<>> THEN NaN
        ELSE [nan |-> FALSE, val |-> signo * ValorNumerico(d, base, 0)]

\* ----- request bodies -----------------------------------------------------
\* req.body.nombre: undefined, a string, or a JSON number
Ausente == [tipo |-> "undefined", str |-> <<>>]

Cadena(s) == [tipo |-> "string", str |-> s]

Numero == [tipo |-> "number", str |-> <<>>]

RECURSIVE Repetir(_, _)
Repetir(c, n) == IF n = 0 THEN <<>> ELSE <<c>> \o Repetir(c, n - 1)

NombresEntrada ==
    {Ausente, Numero}
      \cup {Cadena(Repetir("a", n)) : n \in 0..MaxNombre}
      \cup {Cadena(<<" ", "B", "o">>)}

IdsEntrada ==
    {<<Digitos[d + 1]>> : d \in 1..MaxIdParam}
      \cup {<<"9", "9", "9">>, <<"a", "b", "c">>, <<" ", "3", "x">>}

\* ----- the store ----------------------------------------------------------
UsuariosIniciales ==
    << [id |-> 1, nombre |-> <<"J", "u", "a", "n">>],
       [id |-> 2, nombre |-> <<"A", "n", "a">>],
       [id |-> 3, nombre |-> <<"K", "a", "r", "e", "n">>],
       [id |-> 4, nombre |-> <<"L", "u", "i", "s">>] >>

\* usuarios.find(u => u.id === parseInt(id)): the position of the record
\* found (the reference the handlers hold), 0 for undefined
existeUsuarioUltimo(us, id) ==
    LET n == ParseInt(id)
        S == {i \in 1..Len(us) : ~n.nan /\ us[i].id = n.val}
    IN  IF S = {} THEN 0 ELSE CHOOSE i \in S : \A j \in S : j <= i

existeUsuario(us, id) ==
    LET n == ParseInt(id)
        S == {i \in 1..Len(us) : ~n.nan /\ us[i].id = n.val}
    IN  IF S = {} THEN 0 ELSE CHOOSE i \in S : \A j \in S : i <= j

\* Joi.object({nombre: Joi.string().min(3).required()}).validate({nombre: nom})
MinNombre == 3

validarUsuarioMin2(nom) ==
    [ejecutada |-> TRUE,
     value |-> nom,
     error |-> CASE nom.tipo = "undefined" -> "\"nombre\" is required"
                 [] nom.tipo # "string" -> "\"nombre\" must be a string"
                 [] nom.str = <<>> -> "\"nombre\" is not allowed to be empty"
                 [] Len(nom.str) < MinNombre - 1 ->
                        "\"nombre\" length must be at least 3 characters long"
                 [] OTHER -> ""]

validarUsuario(nom) ==
    [ejecutada |-> TRUE,
     value |-> nom,
     error |-> CASE nom.tipo = "undefined" -> "\"nombre\" is required"
                 [] nom.tipo # "string" -> "\"nombre\" must be a string"
                 [] nom.str = <<>> -> "\"nombre\" is not allowed to be empty"
                 [] Len(nom.str) < MinNombre ->
                        "\"nombre\" length must be at least 3 characters long"
                 [] OTHER -> ""]

\* a handler that does not call validarUsuario
SinValidacion == [ejecutada |-> FALSE, value |-> Ausente, error |-> ""]

\* {id: usuarios.length + 1, nombre: req.body.nombre}
nuevoUsuarioSinSumar(us, nom) == [id |-> Len(us), nombre |-> nom.str]

nuevoUsuario(us, nom) == [id |-> Len(us) + 1, nombre |-> nom.str]

\* usuarios.splice(index, 1)
spliceHastaElFinal(us, index) == SubSeq(us, 1, index - 1)

splice(us, index) == SubSeq(us, 1, index - 1) \o SubSeq(us, index + 1, Len(us))

\* ----- responses ----------------------------------------------------------
\* enviados counts the calls of res.send made by the handler
SinRespuesta == [status |-> 0, enviados |-> 0, texto |-> "", usuarios |-> <<>>]

Texto(st, t) == [status |-> st, enviados |-> 1, texto |-> t, usuarios |-> <<>>]

Json(us) == [status |-> 200, enviados |-> 1, texto |-> "", usuarios |-> us]

NoEncontrado == Texto(404, "El usuario no se encuentra")

Peticion(m, r, id, nom) == [metodo |-> m, ruta |-> r, id |-> id, nombre |-> nom]

\* ----- initial state ------------------------------------------------------
Init ==
    /\ usuarios = UsuariosIniciales
    /\ req = Peticion("NONE", "", <<>>, Ausente)
    /\ res = SinRespuesta
    /\ validacion = SinValidacion
    /\ eliminados = {}
    /\ atendidas = 0

\* ----- handlers -----------------------------------------------------------
\* app.get('/')
GetRaiz ==
    /\ atendidas < MaxPeticiones
    /\ atendidas' = atendidas + 1
    /\ req' = Peticion("GET", "/", <<>>, Ausente)
    /\ res' = Texto(200, "Hola mundo desde Express!")
    /\ validacion' = SinValidacion
    /\ UNCHANGED <<usuarios, eliminados>>

\* app.get('/api/usuarios')
GetUsuarios ==
    /\ atendidas < MaxPeticiones
    /\ atendidas' = atendidas + 1
    /\ req' = Peticion("GET", "/api/usuarios", <<>>, Ausente)
    /\ res' = Json(usuarios)
    /\ validacion' = SinValidacion
    /\ UNCHANGED <<usuarios, eliminados>>

\* app.get('/api/usuarios/:id'): the not-found branch does not return, so
\* res.send(usuario) runs again with usuario undefined; that second call
\* has no body to write and the 404 already sent stands
GetUsuario ==
    /\ atendidas < MaxPeticiones
    /\ \E id \in IdsEntrada :
         LET i == existeUsuario(usuarios, id)
         IN  /\ req' = Peticion("GET", "/api/usuarios/:id", id, Ausente)
             /\ res' = IF i = 0
                       THEN [NoEncontrado EXCEPT !.enviados = 2]
                       ELSE Json(<<usuarios[i]>>)
    /\ atendidas' = atendidas + 1
    /\ validacion' = SinValidacion
    /\ UNCHANGED <<usuarios, eliminados>>

\* app.post('/api/usuarios')
PostUsuario ==
    /\ atendidas < MaxPeticiones
    /\ \E nom \in NombresEntrada :
         LET v == validarUsuario(nom)
             usuario == nuevoUsuario(usuarios, nom)
         IN  /\ req' = Peticion("POST", "/api/usuarios", <<>>, nom)
             /\ validacion' = v
             /\ IF v.error = ""
                THEN /\ usuarios' = Append(usuarios, usuario)
                     /\ res' = Json(<<usuario>>)
                ELSE /\ usuarios' = usuarios
                     /\ res' = Texto(400, v.error)
    /\ atendidas' = atendidas + 1
    /\ UNCHANGED eliminados

\* app.put('/api/usuarios/:id')
PutUsuarioValidaPrimero ==
    /\ atendidas < MaxPeticiones
    /\ \E id \in IdsEntrada, nom \in NombresEntrada :
         LET v == validarUsuario(nom)
             i == existeUsuario(usuarios, id)
         IN  /\ req' = Peticion("PUT", "/api/usuarios/:id", id, nom)
             /\ validacion' = v
             /\ IF v.error # ""
                THEN /\ res' = Texto(400, v.error)
                     /\ usuarios' = usuarios
                ELSE IF i = 0
                THEN /\ res' = NoEncontrado
                     /\ usuarios' = usuarios
                ELSE /\ usuarios' = [usuarios EXCEPT ![i].nombre = v.value.str]
                     /\ res' = Json(<<usuarios'[i]>>)
    /\ atendidas' = atendidas + 1
    /\ UNCHANGED eliminados

PutUsuarioAsignaPrimero ==
    /\ atendidas < MaxPeticiones
    /\ \E id \in IdsEntrada, nom \in NombresEntrada :
         LET i == existeUsuario(usuarios, id)
             v == validarUsuario(nom)
         IN  /\ req' = Peticion("PUT", "/api/usuarios/:id", id, nom)
             /\ IF i = 0
                THEN /\ res' = NoEncontrado
                     /\ validacion' = SinValidacion
                     /\ usuarios' = usuarios
                ELSE /\ validacion' = v
                     /\ usuarios' = [usuarios EXCEPT ![i].nombre = nom.str]
                     /\ res' = IF v.error # ""
                               THEN Texto(400, v.error)
                               ELSE Json(<<usuarios'[i]>>)
    /\ atendidas' = atendidas + 1
    /\ UNCHANGED eliminados

PutUsuario ==
    /\ atendidas < MaxPeticiones
    /\ \E id \in IdsEntrada, nom \in NombresEntrada :
         LET i == existeUsuario(usuarios, id)
             v == validarUsuario(nom)
         IN  /\ req' = Peticion("PUT", "/api/usuarios/:id", id, nom)
             /\ IF i = 0
                THEN /\ res' = NoEncontrado
                     /\ validacion' = SinValidacion
                     /\ usuarios' = usuarios
                ELSE /\ validacion' = v
                     /\ IF v.error # ""
                        THEN /\ res' = Texto(400, v.error)
                             /\ usuarios' = usuarios
                        ELSE /\ usuarios' = [usuarios EXCEPT ![i].nombre = v.value.str]
                             /\ res' = Json(<<usuarios'[i]>>)
    /\ atendidas' = atendidas + 1
    /\ UNCHANGED eliminados

\* app.delete('/api/usuarios/:id'); eliminados records the ids of the
\* records this handler has removed
DeleteUsuario ==
    /\ atendidas < MaxPeticiones
    /\ \E id \in IdsEntrada :
         LET i == existeUsuario(usuarios, id)
         IN  /\ req' = Peticion("DELETE", "/api/usuarios/:id", id, Ausente)
             /\ IF i = 0
                THEN /\ res' = NoEncontrado
                     /\ UNCHANGED <<usuarios, eliminados>>
                ELSE /\ usuarios' = splice(usuarios, i)
                     /\ eliminados' = eliminados \cup {usuarios[i].id}
                     /\ res' = Json(<<usuarios[i]>>)
    /\ atendidas' = atendidas + 1
    /\ validacion' = SinValidacion

Next ==
    \/ GetRaiz
    \/ GetUsuarios
    \/ GetUsuario
    \/ PostUsuario
    \/ PutUsuario
    \/ DeleteUsuario

Spec == Init /\ [][Next]_vars

\* ----- properties ---------------------------------------------------------
\* what the properties say about a body name, stated apart from the validator
EsNombreValido(nom) == nom.tipo = "string" /\ Len(nom.str) >= 3

EsAusenteOCorto(nom) ==
    nom.tipo = "undefined" \/ (nom.tipo = "string" /\ Len(nom.str) < 3)

\* positions of the records whose id is the integer the route parameter parses to
Posiciones(us, id) ==
    LET n == ParseInt(id)
    IN  IF n.nan THEN {} ELSE {i \in 1..Len(us) : us[i].id = n.val}

Primera(us, id) ==
    LET P == Posiciones(us, id) IN CHOOSE i \in P : \A j \in P : i <= j

SinPosicion(us, i) == [j \in 1..(Len(us) - 1) |-> IF j < i THEN us[j] ELSE us[j + 1]]

HayIdsRepetidos ==
    \E i, j \in 1..Len(usuarios) : i # j /\ usuarios[i].id = usuarios[j].id

\* C1: in every reachable state no two records of the store have the same id.
C1_IdsUnicos == ~HayIdsRepetidos

\* C2: an id removed by DELETE is never assigned again by a later successful
\* POST to a newly created record.
C2_SinReusoDeId ==
    [][(req'.metodo = "POST" /\ res'.status = 200)
         => res'.usuarios[1].id \notin eliminados]_vars

\* C3: a POST with a valid name responds 200 (one send) with the record
\* {id: length before + 1, nombre: submitted name}, appends it at the end of
\* the store, and leaves every earlier record and its position unchanged.
C3_PostValido ==
    [][(req'.metodo = "POST" /\ EsNombreValido(req'.nombre))
         => LET nuevo == [id |-> Len(usuarios) + 1, nombre |-> req'.nombre.str]
            IN  /\ res'.status = 200
                /\ res'.usuarios = <<nuevo>>
                /\ Len(usuarios') = Len(usuarios) + 1
                /\ usuarios'[Len(usuarios')] = nuevo
                /\ \A i \in 1..Len(usuarios) : usuarios'[i] = usuarios[i]]_vars

C3_Testigo ==
    /\ req.metodo = "POST"
    /\ res.status = 200
    /\ req.nombre = Cadena(<<" ", "B", "o">>)
    /\ Len(usuarios) = 5
    /\ usuarios[5].id = 5

\* C4: with an absent or too short name, POST, and PUT on an id that exists,
\* respond 400 and leave the store exactly as it was.
C4_NombreInvalido ==
    [][(EsAusenteOCorto(req'.nombre)
         /\ (req'.metodo = "POST"
               \/ (req'.metodo = "PUT" /\ Posiciones(usuarios, req'.id) # {})))
         => (res'.status = 400 /\ usuarios' = usuarios)]_vars

C4_Testigo ==
    /\ req.metodo = "PUT"
    /\ Posiciones(usuarios, req.id) # {}
    /\ req.nombre = Cadena(<<"a", "a">>)
    /\ res.status = 400

\* C5: after a successful DELETE of an id, a GET of the same id issued next
\* responds 404.
C5_GetTrasDelete ==
    [][(req.metodo = "DELETE" /\ res.status = 200
          /\ req'.metodo = "GET" /\ req'.ruta = "/api/usuarios/:id"
          /\ req'.id = req.id)
         => res'.status = 404]_vars

\* C6: a PUT on an id that matches no record responds 404, never 400, without
\* running the validator, whatever the body name, and leaves the store unchanged.
C6_PutNoEncontrado ==
    [][(req'.metodo = "PUT" /\ Posiciones(usuarios, req'.id) = {})
         => (/\ res'.status = 404
             /\ ~validacion'.ejecutada
             /\ usuarios' = usuarios)]_vars

C6_Testigo ==
    /\ req.metodo = "PUT"
    /\ Posiciones(usuarios, req.id) = {}
    /\ req.nombre = Cadena(<<"a">>)
    /\ res.status = 404

\* C7: the validator succeeds exactly when the name is a string of at least 3
\* characters, then returning that same string; it returns an error for an
\* absent name and for every shorter string, the empty one included.
C7_Validador ==
    validacion.ejecutada
      => /\ (validacion.error = "") <=> EsNombreValido(req.nombre)
         /\ validacion.error = "" => validacion.value = req.nombre
         /\ EsAusenteOCorto(req.nombre) => validacion.error # ""

C7_Testigo ==
    /\ validacion.ejecutada
    /\ validacion.error = ""
    /\ validacion.value = Cadena(<<" ", "B", "o">>)

\* C8: a PUT on an existing id with a valid name changes only the name of the
\* first record in store order with that id and returns that record.
C8_PutValido ==
    [][(req'.metodo = "PUT" /\ EsNombreValido(req'.nombre)
          /\ Posiciones(usuarios, req'.id) # {})
         => LET i == Primera(usuarios, req'.id)
            IN  /\ res'.status = 200
                /\ Len(usuarios') = Len(usuarios)
                /\ usuarios'[i] = [id |-> usuarios[i].id, nombre |-> req'.nombre.str]
                /\ res'.usuarios = <<usuarios'[i]>>
                /\ \A j \in 1..Len(usuarios) : j # i => usuarios'[j] = usuarios[j]]_vars

C8_Testigo ==
    /\ req.metodo = "PUT"
    /\ res.status = 200
    /\ Cardinality(Posiciones(usuarios, req.id)) = 2
    /\ usuarios[Primera(usuarios, req.id)].nombre = <<"a", "a", "a">>

\* C9: a DELETE on an existing id removes exactly the first record with that
\* id and returns it, the other records keeping ids, names and order; a DELETE
\* on an id not in the store responds 404 and leaves the store unchanged.
C9_Delete ==
    [][(req'.metodo = "DELETE")
         => IF Posiciones(usuarios, req'.id) = {}
            THEN res'.status = 404 /\ usuarios' = usuarios
            ELSE LET i == Primera(usuarios, req'.id)
                 IN  /\ res'.status = 200
                     /\ res'.usuarios = <<usuarios[i]>>
                     /\ usuarios' = SinPosicion(usuarios, i)]_vars

C9_Testigo ==
    /\ req.metodo = "DELETE"
    /\ res.status = 200
    /\ res.usuarios[1].id = 2
    /\ Len(usuarios) = 3
    /\ usuarios[2].id = 3

\* C10: every handler calls send exactly once per request; in particular
\* GET /api/usuarios/:id for an unknown id sends the 404 and nothing else.
C10_UnaSolaRespuesta == req.metodo # "NONE" => res.enviados = 1

====
